---- MODULE Spec2Model ----
(***************************************************************************)
(* Statement-level stepping of the js-interpreter wrapper                  *)
(* (src/src/afl-interpreter.ts, class InterpreterWrapper).                 *)
(*                                                                         *)
(* The wrapper drives an elementary-step evaluator (the vendored           *)
(* js-interpreter, ./lib/js-interpreter/interpreter, an external           *)
(* collaborator).  The evaluator is modelled here after its                *)
(* interface (step, run, getStatus, value, stateStack) for an ES5 subset:  *)
(* var, function, if, while, block, return, expression statements, calls,  *)
(* assignments, binary expressions, identifiers and number literals, throw, *)
(* and calls of native and async host functions.                           *)
(*                                                                         *)
(* Eight systems are specified over the same variables:                    *)
(*   Spec            stepStatement() over programs that run to the end     *)
(*   SpecFault       stepStatement() over programs that raise errors       *)
(*   SpecDriver      the runToCompletion script (SpecDriverFair: with      *)
(*                   timers that fire and a host that resolves)            *)
(*   SpecLimiter     RateLimitedCaller under mainModule's loop             *)
(*                   (src/src/afl-human-eval.ts)                           *)
(*   SpecConcurrent  RateLimitedCaller under calls that overlap            *)
(*   SpecStep        step() and getStatus() in a loop                      *)
(*   SpecAsync       stepStatement() with an async host function           *)
(*   SpecLib         run(code), execute mode, the statement classification *)
(*                   and deepEqual (src/src/require_wrapper.js)            *)
(***************************************************************************)
EXTENDS Integers, Sequences, FiniteSets, TLC

VARIABLES
  prog,       \* name of the program the interpreter was constructed with
  ev,         \* the evaluator: [stack, value, scopes]
  pc,         \* position of the caller: "idle", or "loop" inside stepStatement()
  startNode,  \* stepStatement's local startNode (0 outside a call)
  returned,   \* what the stepStatement() calls have returned so far, in order
  nsteps,     \* number of step() invocations that performed a step
  stepCalls,  \* number of step() invocations
  doneCalls,  \* number of stepStatement() calls begun with nothing left to run
  hist,       \* history, parallel to returned: how each return came about
  topAtCall,  \* history: node of the top frame when the current call began
  doneValue,  \* history: node id -> evaluator value when its frame was last popped
  thrown,     \* the errors stepStatement() calls have raised to the caller, in order
  drv,        \* the runToCompletion script: its timer and what its last call did
  lim,        \* the RateLimitedCaller, the calls made on it and the clock
  call        \* the library function last called, its argument and result

vars == <<prog, ev, pc, startNode, returned, nsteps, stepCalls, doneCalls,
          hist, topAtCall, doneValue, thrown, drv, lim, call>>

----------------------------------------------------------------------------
(* Bounds *)

\* stepStatement() calls that may still be made once the status is DONE
MaxNullCalls == 2

\* step() calls followed inside stepStatement()'s loop (more than any modelled
\* program takes when it is not blocked)
MaxStepCalls == 80

----------------------------------------------------------------------------
(* Values of the evaluated language: a tag and an integer payload *)

Undef == [t |-> "undefined", v |-> 0]
Num(n) == [t |-> "number", v |-> n]
Bool(b) == [t |-> "boolean", v |-> IF b THEN 1 ELSE 0]
Func(n) == [t |-> "function", v |-> n]
\* a host function registered synchronously (createNativeFunction)
Native == [t |-> "native", v |-> 0]
\* a host function that completes through a callback (createAsyncFunction)
Async == [t |-> "async", v |-> 0]

\* Boolean(value) of the language
Truthy(x) == x.t = "function" \/ (x.t \in {"number", "boolean"} /\ x.v # 0)

----------------------------------------------------------------------------
(* AST nodes (acorn, ecmaVersion 5): kind, source span and children.       *)
(* a, b, c are child node ids (0: none), list a sequence of child ids.     *)

N(type, start, end, name, op, val, a, b, c, list, params) ==
  [type |-> type, start |-> start, end |-> end, name |-> name, op |-> op,
   val |-> val, a |-> a, b |-> b, c |-> c, list |-> list, params |-> params]

\* var x = 1; x = x + 1; if (x === 2) { x = x * 2; } x;
ProgIf ==
  <<
    N("Program", 0, 52, "", "", 0, 0, 0, 0, <<2, 4, 10, 21>>, <<>>),
    N("VariableDeclaration", 0, 10, "x", "", 0, 3, 0, 0, <<>>, <<>>),
    N("Literal", 8, 9, "", "", 1, 0, 0, 0, <<>>, <<>>),
    N("ExpressionStatement", 11, 21, "", "", 0, 5, 0, 0, <<>>, <<>>),
    N("AssignmentExpression", 11, 20, "", "=", 0, 6, 7, 0, <<>>, <<>>),
    N("Identifier", 11, 12, "x", "", 0, 0, 0, 0, <<>>, <<>>),
    N("BinaryExpression", 15, 20, "", "+", 0, 8, 9, 0, <<>>, <<>>),
    N("Identifier", 15, 16, "x", "", 0, 0, 0, 0, <<>>, <<>>),
    N("Literal", 19, 20, "", "", 1, 0, 0, 0, <<>>, <<>>),
    N("IfStatement", 22, 49, "", "", 0, 11, 14, 0, <<>>, <<>>),
    N("BinaryExpression", 26, 33, "", "===", 0, 12, 13, 0, <<>>, <<>>),
    N("Identifier", 26, 27, "x", "", 0, 0, 0, 0, <<>>, <<>>),
    N("Literal", 32, 33, "", "", 2, 0, 0, 0, <<>>, <<>>),
    N("BlockStatement", 35, 49, "", "", 0, 0, 0, 0, <<15>>, <<>>),
    N("ExpressionStatement", 37, 47, "", "", 0, 16, 0, 0, <<>>, <<>>),
    N("AssignmentExpression", 37, 46, "", "=", 0, 17, 18, 0, <<>>, <<>>),
    N("Identifier", 37, 38, "x", "", 0, 0, 0, 0, <<>>, <<>>),
    N("BinaryExpression", 41, 46, "", "*", 0, 19, 20, 0, <<>>, <<>>),
    N("Identifier", 41, 42, "x", "", 0, 0, 0, 0, <<>>, <<>>),
    N("Literal", 45, 46, "", "", 2, 0, 0, 0, <<>>, <<>>),
    N("ExpressionStatement", 50, 52, "", "", 0, 22, 0, 0, <<>>, <<>>),
    N("Identifier", 50, 51, "x", "", 0, 0, 0, 0, <<>>, <<>>)
  >>

\* function double(x) { return x * 2; } var result = double(3); result;
ProgCall ==
  <<
    N("Program", 0, 68, "", "", 0, 0, 0, 0, <<2, 8, 12>>, <<>>),
    N("FunctionDeclaration", 0, 36, "double", "", 0, 0, 3, 0, <<>>, <<"x">>),
    N("BlockStatement", 19, 36, "", "", 0, 0, 0, 0, <<4>>, <<>>),
    N("ReturnStatement", 21, 34, "", "", 0, 5, 0, 0, <<>>, <<>>),
    N("BinaryExpression", 28, 33, "", "*", 0, 6, 7, 0, <<>>, <<>>),
    N("Identifier", 28, 29, "x", "", 0, 0, 0, 0, <<>>, <<>>),
    N("Literal", 32, 33, "", "", 2, 0, 0, 0, <<>>, <<>>),
    N("VariableDeclaration", 37, 60, "result", "", 0, 9, 0, 0, <<>>, <<>>),
    N("CallExpression", 50, 59, "", "", 0, 10, 0, 0, <<11>>, <<>>),
    N("Identifier", 50, 56, "double", "", 0, 0, 0, 0, <<>>, <<>>),
    N("Literal", 57, 58, "", "", 3, 0, 0, 0, <<>>, <<>>),
    N("ExpressionStatement", 61, 68, "", "", 0, 13, 0, 0, <<>>, <<>>),
    N("Identifier", 61, 67, "result", "", 0, 0, 0, 0, <<>>, <<>>)
  >>

\* var x = 1;\nx += 1;
ProgPos ==
  <<
    N("Program", 0, 18, "", "", 0, 0, 0, 0, <<2, 4>>, <<>>),
    N("VariableDeclaration", 0, 10, "x", "", 0, 3, 0, 0, <<>>, <<>>),
    N("Literal", 8, 9, "", "", 1, 0, 0, 0, <<>>, <<>>),
    N("ExpressionStatement", 11, 18, "", "", 0, 5, 0, 0, <<>>, <<>>),
    N("AssignmentExpression", 11, 17, "", "+=", 0, 6, 7, 0, <<>>, <<>>),
    N("Identifier", 11, 12, "x", "", 0, 0, 0, 0, <<>>, <<>>),
    N("Literal", 16, 17, "", "", 1, 0, 0, 0, <<>>, <<>>)
  >>

\* 
ProgEmpty ==
  <<
    N("Program", 0, 0, "", "", 0, 0, 0, 0, <<>>, <<>>)
  >>

\* var x = 5; x + 3;
ProgSum ==
  <<
    N("Program", 0, 17, "", "", 0, 0, 0, 0, <<2, 4>>, <<>>),
    N("VariableDeclaration", 0, 10, "x", "", 0, 3, 0, 0, <<>>, <<>>),
    N("Literal", 8, 9, "", "", 5, 0, 0, 0, <<>>, <<>>),
    N("ExpressionStatement", 11, 17, "", "", 0, 5, 0, 0, <<>>, <<>>),
    N("BinaryExpression", 11, 16, "", "+", 0, 6, 7, 0, <<>>, <<>>),
    N("Identifier", 11, 12, "x", "", 0, 0, 0, 0, <<>>, <<>>),
    N("Literal", 15, 16, "", "", 3, 0, 0, 0, <<>>, <<>>)
  >>

\* var x = 0; while (x < 2) { x = x + 1; } x;
ProgWhile ==
  <<
    N("Program", 0, 42, "", "", 0, 0, 0, 0, <<2, 4, 15>>, <<>>),
    N("VariableDeclaration", 0, 10, "x", "", 0, 3, 0, 0, <<>>, <<>>),
    N("Literal", 8, 9, "", "", 0, 0, 0, 0, <<>>, <<>>),
    N("WhileStatement", 11, 39, "", "", 0, 5, 8, 0, <<>>, <<>>),
    N("BinaryExpression", 18, 23, "", "<", 0, 6, 7, 0, <<>>, <<>>),
    N("Identifier", 18, 19, "x", "", 0, 0, 0, 0, <<>>, <<>>),
    N("Literal", 22, 23, "", "", 2, 0, 0, 0, <<>>, <<>>),
    N("BlockStatement", 25, 39, "", "", 0, 0, 0, 0, <<9>>, <<>>),
    N("ExpressionStatement", 27, 37, "", "", 0, 10, 0, 0, <<>>, <<>>),
    N("AssignmentExpression", 27, 36, "", "=", 0, 11, 12, 0, <<>>, <<>>),
    N("Identifier", 27, 28, "x", "", 0, 0, 0, 0, <<>>, <<>>),
    N("BinaryExpression", 31, 36, "", "+", 0, 13, 14, 0, <<>>, <<>>),
    N("Identifier", 31, 32, "x", "", 0, 0, 0, 0, <<>>, <<>>),
    N("Literal", 35, 36, "", "", 1, 0, 0, 0, <<>>, <<>>),
    N("ExpressionStatement", 40, 42, "", "", 0, 16, 0, 0, <<>>, <<>>),
    N("Identifier", 40, 41, "x", "", 0, 0, 0, 0, <<>>, <<>>)
  >>

\* var x = 2; if (x < 2) { x = 10; } else { x = 0; } x;
ProgIfElse ==
  <<
    N("Program", 0, 52, "", "", 0, 0, 0, 0, <<2, 4, 18>>, <<>>),
    N("VariableDeclaration", 0, 10, "x", "", 0, 3, 0, 0, <<>>, <<>>),
    N("Literal", 8, 9, "", "", 2, 0, 0, 0, <<>>, <<>>),
    N("IfStatement", 11, 49, "", "", 0, 5, 8, 13, <<>>, <<>>),
    N("BinaryExpression", 15, 20, "", "<", 0, 6, 7, 0, <<>>, <<>>),
    N("Identifier", 15, 16, "x", "", 0, 0, 0, 0, <<>>, <<>>),
    N("Literal", 19, 20, "", "", 2, 0, 0, 0, <<>>, <<>>),
    N("BlockStatement", 22, 33, "", "", 0, 0, 0, 0, <<9>>, <<>>),
    N("ExpressionStatement", 24, 31, "", "", 0, 10, 0, 0, <<>>, <<>>),
    N("AssignmentExpression", 24, 30, "", "=", 0, 11, 12, 0, <<>>, <<>>),
    N("Identifier", 24, 25, "x", "", 0, 0, 0, 0, <<>>, <<>>),
    N("Literal", 28, 30, "", "", 10, 0, 0, 0, <<>>, <<>>),
    N("BlockStatement", 39, 49, "", "", 0, 0, 0, 0, <<14>>, <<>>),
    N("ExpressionStatement", 41, 47, "", "", 0, 15, 0, 0, <<>>, <<>>),
    N("AssignmentExpression", 41, 46, "", "=", 0, 16, 17, 0, <<>>, <<>>),
    N("Identifier", 41, 42, "x", "", 0, 0, 0, 0, <<>>, <<>>),
    N("Literal", 45, 46, "", "", 0, 0, 0, 0, <<>>, <<>>),
    N("ExpressionStatement", 50, 52, "", "", 0, 19, 0, 0, <<>>, <<>>),
    N("Identifier", 50, 51, "x", "", 0, 0, 0, 0, <<>>, <<>>)
  >>

\* 1; 2; var y = 3; y;
ProgFlat ==
  <<
    N("Program", 0, 19, "", "", 0, 0, 0, 0, <<2, 4, 6, 8>>, <<>>),
    N("ExpressionStatement", 0, 2, "", "", 0, 3, 0, 0, <<>>, <<>>),
    N("Literal", 0, 1, "", "", 1, 0, 0, 0, <<>>, <<>>),
    N("ExpressionStatement", 3, 5, "", "", 0, 5, 0, 0, <<>>, <<>>),
    N("Literal", 3, 4, "", "", 2, 0, 0, 0, <<>>, <<>>),
    N("VariableDeclaration", 6, 16, "y", "", 0, 7, 0, 0, <<>>, <<>>),
    N("Literal", 14, 15, "", "", 3, 0, 0, 0, <<>>, <<>>),
    N("ExpressionStatement", 17, 19, "", "", 0, 9, 0, 0, <<>>, <<>>),
    N("Identifier", 17, 18, "y", "", 0, 0, 0, 0, <<>>, <<>>)
  >>

Programs ==
  [If |-> ProgIf, Call |-> ProgCall, Pos |-> ProgPos, Empty |-> ProgEmpty,
   Sum |-> ProgSum, While |-> ProgWhile, IfElse |-> ProgIfElse, Flat |-> ProgFlat]

ProgramNames == DOMAIN Programs

\* var x = 1; throw x; x;
ProgThrow ==
  <<
    N("Program", 0, 22, "", "", 0, 0, 0, 0, <<2, 4, 6>>, <<>>),
    N("VariableDeclaration", 0, 10, "x", "", 0, 3, 0, 0, <<>>, <<>>),
    N("Literal", 8, 9, "", "", 1, 0, 0, 0, <<>>, <<>>),
    N("ThrowStatement", 11, 19, "", "", 0, 5, 0, 0, <<>>, <<>>),
    N("Identifier", 17, 18, "x", "", 0, 0, 0, 0, <<>>, <<>>),
    N("ExpressionStatement", 20, 22, "", "", 0, 7, 0, 0, <<>>, <<>>),
    N("Identifier", 20, 21, "x", "", 0, 0, 0, 0, <<>>, <<>>)
  >>

\* var msg = 1; alert(msg); 2;
ProgAlert ==
  <<
    N("Program", 0, 27, "", "", 0, 0, 0, 0, <<2, 4, 8>>, <<>>),
    N("VariableDeclaration", 0, 12, "msg", "", 0, 3, 0, 0, <<>>, <<>>),
    N("Literal", 10, 11, "", "", 1, 0, 0, 0, <<>>, <<>>),
    N("ExpressionStatement", 13, 24, "", "", 0, 5, 0, 0, <<>>, <<>>),
    N("CallExpression", 13, 23, "", "", 0, 6, 0, 0, <<7>>, <<>>),
    N("Identifier", 13, 18, "alert", "", 0, 0, 0, 0, <<>>, <<>>),
    N("Identifier", 19, 22, "msg", "", 0, 0, 0, 0, <<>>, <<>>),
    N("ExpressionStatement", 25, 27, "", "", 0, 9, 0, 0, <<>>, <<>>),
    N("Literal", 25, 26, "", "", 2, 0, 0, 0, <<>>, <<>>)
  >>

\* var r = fetch(1); r + 1;
ProgFetch ==
  <<
    N("Program", 0, 24, "", "", 0, 0, 0, 0, <<2, 6>>, <<>>),
    N("VariableDeclaration", 0, 17, "r", "", 0, 3, 0, 0, <<>>, <<>>),
    N("CallExpression", 8, 16, "", "", 0, 4, 0, 0, <<5>>, <<>>),
    N("Identifier", 8, 13, "fetch", "", 0, 0, 0, 0, <<>>, <<>>),
    N("Literal", 14, 15, "", "", 1, 0, 0, 0, <<>>, <<>>),
    N("ExpressionStatement", 18, 24, "", "", 0, 7, 0, 0, <<>>, <<>>),
    N("BinaryExpression", 18, 23, "", "+", 0, 8, 9, 0, <<>>, <<>>),
    N("Identifier", 18, 19, "r", "", 0, 0, 0, 0, <<>>, <<>>),
    N("Literal", 22, 23, "", "", 1, 0, 0, 0, <<>>, <<>>)
  >>

\* var a = fetch(1); var b = fetch(a); b;
ProgFetch2 ==
  <<
    N("Program", 0, 38, "", "", 0, 0, 0, 0, <<2, 6, 10>>, <<>>),
    N("VariableDeclaration", 0, 17, "a", "", 0, 3, 0, 0, <<>>, <<>>),
    N("CallExpression", 8, 16, "", "", 0, 4, 0, 0, <<5>>, <<>>),
    N("Identifier", 8, 13, "fetch", "", 0, 0, 0, 0, <<>>, <<>>),
    N("Literal", 14, 15, "", "", 1, 0, 0, 0, <<>>, <<>>),
    N("VariableDeclaration", 18, 35, "b", "", 0, 7, 0, 0, <<>>, <<>>),
    N("CallExpression", 26, 34, "", "", 0, 8, 0, 0, <<9>>, <<>>),
    N("Identifier", 26, 31, "fetch", "", 0, 0, 0, 0, <<>>, <<>>),
    N("Identifier", 32, 33, "a", "", 0, 0, 0, 0, <<>>, <<>>),
    N("ExpressionStatement", 36, 38, "", "", 0, 11, 0, 0, <<>>, <<>>),
    N("Identifier", 36, 37, "b", "", 0, 0, 0, 0, <<>>, <<>>)
  >>

\* programs whose execution raises an error out of step()
FaultyPrograms == [Throw |-> ProgThrow, Alert |-> ProgAlert]

\* programs that call a host function completing through a callback
AsyncPrograms == [Fetch |-> ProgFetch, Fetch2 |-> ProgFetch2]

AllPrograms ==
  [n \in DOMAIN Programs \cup DOMAIN FaultyPrograms \cup DOMAIN AsyncPrograms |->
     IF n \in DOMAIN Programs THEN Programs[n]
     ELSE IF n \in DOMAIN FaultyPrograms THEN FaultyPrograms[n]
     ELSE AsyncPrograms[n]]

----------------------------------------------------------------------------
(* Scopes: a sequence of [vars, parent]; scope 1 is the global scope.      *)

RECURSIVE ScopeOf(_, _, _)
\* the nearest scope of the chain starting at s that has the name (0: none)
ScopeOf(scopes, s, name) ==
  IF s = 0 THEN 0
  ELSE IF name \in DOMAIN scopes[s].vars THEN s
  ELSE ScopeOf(scopes, scopes[s].parent, name)

getValueFromScope(scopes, s, name) ==
  LET o == ScopeOf(scopes, s, name)
  IN  IF o = 0 THEN Undef ELSE scopes[o].vars[name]

setValueToScope(scopes, s, name, val) ==
  LET o == ScopeOf(scopes, s, name)
      t == IF o = 0 THEN 1 ELSE o
  IN  [scopes EXCEPT ![t].vars =
         [k \in DOMAIN scopes[t].vars \cup {name} |->
            IF k = name THEN val ELSE scopes[t].vars[k]]]

RECURSIVE Declared(_, _)
\* the <<name, value>> pairs hoisted from the subtree n, not entering functions
Declared(Pg, n) ==
  IF n = 0 THEN {}
  ELSE LET nd == Pg[n]
       IN  CASE nd.type = "VariableDeclaration" -> {<<nd.name, Undef>>}
             [] nd.type = "FunctionDeclaration" -> {<<nd.name, Func(n)>>}
             [] nd.type \in {"Program", "BlockStatement", "IfStatement", "WhileStatement"} ->
                  Declared(Pg, nd.b) \cup Declared(Pg, nd.c) \cup
                  UNION {Declared(Pg, nd.list[i]) : i \in DOMAIN nd.list}
             [] OTHER -> {}

populateScope(Pg, n, bound) ==
  LET d == Declared(Pg, n)
      names == {x[1] : x \in d} \cup DOMAIN bound
  IN  [k \in names |->
         IF k \in DOMAIN bound THEN bound[k]
         ELSE IF \E x \in d : x[1] = k /\ x[2].t = "function"
              THEN (CHOOSE x \in d : x[1] = k /\ x[2].t = "function")[2]
              ELSE Undef]

----------------------------------------------------------------------------
(* Execution frames (Interpreter.State) and the frame stack                *)

State(node, scope) ==
  [node |-> node, scope |-> scope, mode |-> 0, done |-> FALSE,
   value |-> Undef, left |-> Undef, args |-> <<>>, components |-> FALSE]

Top(stack) == stack[Len(stack)]
Pop(stack) == SubSeq(stack, 1, Len(stack) - 1)
SetTop(stack, f) == [stack EXCEPT ![Len(stack)] = f]
Push(stack, f) == Append(stack, f)
\* pop the top frame and hand a value to the frame below it
PopGive(stack, val) ==
  LET s == Pop(stack)
  IN  IF s = <<>> THEN s ELSE [s EXCEPT ![Len(s)].value = val]

RECURSIVE unwindReturn(_, _, _)
\* Completion.RETURN: pop frames down to the calling CallExpression
unwindReturn(Pg, stack, val) ==
  IF stack = <<>> THEN stack
  ELSE IF Pg[Top(stack).node].type = "CallExpression"
       THEN [stack EXCEPT ![Len(stack)].value = val]
       ELSE unwindReturn(Pg, Pop(stack), val)

binaryValue(op, l, r) ==
  CASE op = "+" -> Num(l.v + r.v)
    [] op = "-" -> Num(l.v - r.v)
    [] op = "*" -> Num(l.v * r.v)
    [] op = "<" -> Bool(l.v < r.v)
    [] op = "===" -> Bool(l = r)
    [] OTHER -> Undef

\* Completion.THROW with no enclosing try: pop down to the Program frame, mark it
\* done, and raise the error out of step()
throwException(e, err) ==
  [e EXCEPT !.stack = <<[e.stack[1] EXCEPT !.done = TRUE]>>, !.error = err]

\* new Interpreter(code, initFunc): initFunc's bindings are set on the global
\* scope before the program's declarations are hoisted
Interpreter(Pg, bindings) ==
  [stack |-> <<State(1, 1)>>,
   value |-> Undef,
   scopes |-> <<[vars |-> populateScope(Pg, 1, bindings), parent |-> 0]>>,
   paused |-> FALSE,
   error |-> ""]

\* the bindings InterpreterWrapper's constructor registers
WrapperBindings == [require |-> Native]

NewInterpreter(Pg) == Interpreter(Pg, WrapperBindings)

----------------------------------------------------------------------------
(* Elementary steps: one step function per node kind.  Each takes the      *)
(* program Pg and the evaluator e and gives the evaluator after the step.   *)

stepProgram(Pg, e) ==
  LET st == Top(e.stack)  nd == Pg[st.node]
  IN  IF st.mode < Len(nd.list)
      THEN [e EXCEPT !.stack =
              Push(SetTop(e.stack, [st EXCEPT !.mode = st.mode + 1, !.done = FALSE]),
                   State(nd.list[st.mode + 1], st.scope))]
      ELSE [e EXCEPT !.stack = SetTop(e.stack, [st EXCEPT !.done = TRUE])]

stepVariableDeclaration(Pg, e) ==
  LET st == Top(e.stack)  nd == Pg[st.node]
  IN  IF st.mode = 0 /\ nd.a # 0
      THEN [e EXCEPT !.stack =
              Push(SetTop(e.stack, [st EXCEPT !.mode = 1]), State(nd.a, st.scope))]
      ELSE IF st.mode = 1
      THEN [e EXCEPT !.scopes = setValueToScope(e.scopes, st.scope, nd.name, st.value),
                     !.stack = Pop(e.stack)]
      ELSE [e EXCEPT !.stack = Pop(e.stack)]

stepExpressionStatement(Pg, e) ==
  LET st == Top(e.stack)  nd == Pg[st.node]
  IN  IF st.mode = 0
      THEN [e EXCEPT !.value = Undef,
                     !.stack = Push(SetTop(e.stack, [st EXCEPT !.mode = 1]),
                                    State(nd.a, st.scope))]
      ELSE [e EXCEPT !.stack = Pop(e.stack), !.value = st.value]

stepIfStatement(Pg, e) ==
  LET st == Top(e.stack)  nd == Pg[st.node]
  IN  CASE st.mode = 0 ->
             [e EXCEPT !.stack =
                Push(SetTop(e.stack, [st EXCEPT !.mode = 1]), State(nd.a, st.scope))]
        [] st.mode = 1 /\ Truthy(st.value) /\ nd.b # 0 ->
             [e EXCEPT !.stack =
                Push(SetTop(e.stack, [st EXCEPT !.mode = 2]), State(nd.b, st.scope))]
        [] st.mode = 1 /\ ~Truthy(st.value) /\ nd.c # 0 ->
             [e EXCEPT !.stack =
                Push(SetTop(e.stack, [st EXCEPT !.mode = 2]), State(nd.c, st.scope))]
        [] st.mode = 1 /\ ~Truthy(st.value) /\ nd.c = 0 ->
             [e EXCEPT !.value = Undef, !.stack = Pop(e.stack)]
        [] OTHER -> [e EXCEPT !.stack = Pop(e.stack)]

stepWhileStatement(Pg, e) ==
  LET st == Top(e.stack)  nd == Pg[st.node]
  IN  IF st.mode = 0
      THEN [e EXCEPT !.stack =
              Push(SetTop(e.stack, [st EXCEPT !.mode = 1]), State(nd.a, st.scope))]
      ELSE IF ~Truthy(st.value)
      THEN [e EXCEPT !.stack = Pop(e.stack)]
      ELSE [e EXCEPT !.stack =
              Push(SetTop(e.stack, [st EXCEPT !.mode = 0]), State(nd.b, st.scope))]

stepBlockStatement(Pg, e) ==
  LET st == Top(e.stack)  nd == Pg[st.node]
  IN  IF st.mode < Len(nd.list)
      THEN [e EXCEPT !.stack =
              Push(SetTop(e.stack, [st EXCEPT !.mode = st.mode + 1]),
                   State(nd.list[st.mode + 1], st.scope))]
      ELSE [e EXCEPT !.stack = Pop(e.stack)]

stepFunctionDeclaration(Pg, e) == [e EXCEPT !.stack = Pop(e.stack)]

stepReturnStatement(Pg, e) ==
  LET st == Top(e.stack)  nd == Pg[st.node]
  IN  IF nd.a # 0 /\ st.mode = 0
      THEN [e EXCEPT !.stack =
              Push(SetTop(e.stack, [st EXCEPT !.mode = 1]), State(nd.a, st.scope))]
      ELSE [e EXCEPT !.stack = unwindReturn(Pg, e.stack, st.value)]

stepThrowStatement(Pg, e) ==
  LET st == Top(e.stack)  nd == Pg[st.node]
  IN  IF st.mode = 0
      THEN [e EXCEPT !.stack =
              Push(SetTop(e.stack, [st EXCEPT !.mode = 1]), State(nd.a, st.scope))]
      ELSE throwException(e, "Thrown")

stepCallExpression(Pg, e) ==
  LET st == Top(e.stack)  nd == Pg[st.node]
  IN  CASE st.mode = 0 ->
             [e EXCEPT !.stack =
                Push(SetTop(e.stack, [st EXCEPT !.mode = 1]),
                     [State(nd.a, st.scope) EXCEPT !.components = TRUE])]
        [] st.mode \in {1, 2} ->
             LET func == IF st.mode = 1
                         THEN getValueFromScope(e.scopes, st.scope, Pg[nd.a].name)
                         ELSE st.left
                 args == IF st.mode = 1 THEN <<>> ELSE Append(st.args, st.value)
             IN  IF st.mode = 1 /\ ScopeOf(e.scopes, st.scope, Pg[nd.a].name) = 0
                 THEN throwException(e, "ReferenceError")
                 ELSE IF Len(args) < Len(nd.list)
                 THEN [e EXCEPT !.stack =
                         Push(SetTop(e.stack,
                                [st EXCEPT !.mode = 2, !.left = func, !.args = args]),
                              State(nd.list[Len(args) + 1], st.scope))]
                 ELSE IF func.t \notin {"function", "native", "async"}
                 THEN throwException(e, "TypeError")
                 ELSE IF func.t = "native"
                 THEN [e EXCEPT !.stack =
                         SetTop(e.stack, [st EXCEPT !.mode = 3, !.left = func,
                                                    !.args = args, !.value = Undef])]
                 ELSE IF func.t = "async"
                 THEN [e EXCEPT !.paused = TRUE,
                                !.stack =
                         SetTop(e.stack, [st EXCEPT !.mode = 3, !.left = func,
                                                    !.args = args, !.value = Undef])]
                 ELSE LET fn == Pg[func.v]
                          bound == [k \in {fn.params[i] : i \in DOMAIN fn.params} |->
                                      LET i == CHOOSE j \in DOMAIN fn.params : fn.params[j] = k
                                      IN  IF i <= Len(args) THEN args[i] ELSE Undef]
                          scope == [vars |-> populateScope(Pg, fn.b, bound), parent |-> 1]
                      IN  [e EXCEPT !.scopes = Append(e.scopes, scope),
                                    !.stack =
                             Push(SetTop(e.stack,
                                    [st EXCEPT !.mode = 3, !.left = func, !.args = args,
                                               !.value = Undef]),
                                  State(fn.b, Len(e.scopes) + 1))]
        [] OTHER -> [e EXCEPT !.stack = PopGive(e.stack, st.value)]

stepBinaryExpression(Pg, e) ==
  LET st == Top(e.stack)  nd == Pg[st.node]
  IN  CASE st.mode = 0 ->
             [e EXCEPT !.stack =
                Push(SetTop(e.stack, [st EXCEPT !.mode = 1]), State(nd.a, st.scope))]
        [] st.mode = 1 ->
             [e EXCEPT !.stack =
                Push(SetTop(e.stack, [st EXCEPT !.mode = 2, !.left = st.value]),
                     State(nd.b, st.scope))]
        [] OTHER ->
             [e EXCEPT !.stack = PopGive(e.stack, binaryValue(nd.op, st.left, st.value))]

stepAssignmentExpression(Pg, e) ==
  LET st == Top(e.stack)  nd == Pg[st.node]
  IN  CASE st.mode = 0 ->
             [e EXCEPT !.stack =
                Push(SetTop(e.stack, [st EXCEPT !.mode = 1]),
                     [State(nd.a, st.scope) EXCEPT !.components = TRUE])]
        [] st.mode = 1 ->
             [e EXCEPT !.stack =
                Push(SetTop(e.stack,
                       [st EXCEPT !.mode = 2,
                                  !.left = IF nd.op = "="
                                           THEN Undef
                                           ELSE getValueFromScope(e.scopes, st.scope,
                                                                  Pg[nd.a].name)]),
                     State(nd.b, st.scope))]
        [] OTHER ->
             LET val == IF nd.op = "=" THEN st.value
                        ELSE binaryValue("+", st.left, st.value)
             IN  [e EXCEPT !.scopes = setValueToScope(e.scopes, st.scope, Pg[nd.a].name, val),
                           !.stack = PopGive(e.stack, val)]

stepIdentifier(Pg, e) ==
  LET st == Top(e.stack)  nd == Pg[st.node]
  IN  IF st.components
      THEN [e EXCEPT !.stack = PopGive(e.stack, [t |-> "reference", v |-> st.node])]
      ELSE IF ScopeOf(e.scopes, st.scope, nd.name) = 0
      THEN throwException(e, "ReferenceError")
      ELSE [e EXCEPT !.stack =
              PopGive(e.stack, getValueFromScope(e.scopes, st.scope, nd.name))]

stepLiteral(Pg, e) ==
  LET st == Top(e.stack)  nd == Pg[st.node]
  IN  [e EXCEPT !.stack = PopGive(e.stack, Num(nd.val))]

\* Interpreter.prototype.step: FALSE when there is nothing left to execute
CanStep(Pg, e) ==
  /\ e.stack # <<>>
  /\ ~(Pg[Top(e.stack).node].type = "Program" /\ Top(e.stack).done)

StepEval(Pg, e) ==
  LET ty == Pg[Top(e.stack).node].type
  IN  CASE e.paused -> e
        [] ty = "Program" -> stepProgram(Pg, e)
        [] ty = "VariableDeclaration" -> stepVariableDeclaration(Pg, e)
        [] ty = "ExpressionStatement" -> stepExpressionStatement(Pg, e)
        [] ty = "IfStatement" -> stepIfStatement(Pg, e)
        [] ty = "WhileStatement" -> stepWhileStatement(Pg, e)
        [] ty = "BlockStatement" -> stepBlockStatement(Pg, e)
        [] ty = "FunctionDeclaration" -> stepFunctionDeclaration(Pg, e)
        [] ty = "ReturnStatement" -> stepReturnStatement(Pg, e)
        [] ty = "ThrowStatement" -> stepThrowStatement(Pg, e)
        [] ty = "CallExpression" -> stepCallExpression(Pg, e)
        [] ty = "BinaryExpression" -> stepBinaryExpression(Pg, e)
        [] ty = "AssignmentExpression" -> stepAssignmentExpression(Pg, e)
        [] ty = "Identifier" -> stepIdentifier(Pg, e)
        [] OTHER -> stepLiteral(Pg, e)

\* Interpreter.prototype.getStatus (these programs start no tasks)
DONE == 0
STEP == 1
TASK == 2
ASYNC == 3

EvalStatus(Pg, e) ==
  IF e.paused THEN ASYNC ELSE IF CanStep(Pg, e) THEN STEP ELSE DONE

\* the callback handed to an async host function: deliver the result, unpause
asyncCallback(e, val) ==
  [e EXCEPT !.stack = SetTop(e.stack, [Top(e.stack) EXCEPT !.value = val]),
            !.paused = FALSE]

RECURSIVE RunEval(_, _)
\* Interpreter.prototype.run: step until paused or step() returns false
\* (e2 ranges over the one evaluator the step gives, so that each step is
\* evaluated before the next one is taken)
RunEval(Pg, e) ==
  IF ~e.paused /\ CanStep(Pg, e)
  THEN CHOOSE r \in {RunEval(Pg, e2) : e2 \in {StepEval(Pg, e)}} : TRUE
  ELSE e

----------------------------------------------------------------------------
(* InterpreterWrapper                                                      *)

P == AllPrograms[prog]

getValue(e) == e.value

\* a getStatus() that reports STEP whatever is left to run
getStatusStep(Pg, e) == STEP

getStatus(Pg, e) == EvalStatus(Pg, e)

\* step(): the evaluator after the call and the boolean it returns
\* (err: the error the call throws instead of returning, "" when it returns)
Stepped(e2) == [ev |-> e2, ret |-> TRUE, err |-> e2.error]

step(Pg, e) ==
  IF CanStep(Pg, e) THEN Stepped(StepEval(Pg, e))
  ELSE [ev |-> e, ret |-> FALSE, err |-> ""]

\* run(): TRUE when blocked on an async call, FALSE when nothing is left
run(Pg, e) ==
  LET e2 == RunEval(Pg, e) IN [ev |-> e2, ret |-> e2.paused, err |-> e2.error]

\* the node of the top frame (0 stands for undefined)
getCurrentStatement(e) ==
  IF e.stack = <<>> THEN 0 ELSE e.stack[Len(e.stack)].node

\* the set with one kind left out
statementTypesNoThrow ==
  {"VariableDeclaration", "ExpressionStatement", "ReturnStatement", "IfStatement",
   "WhileStatement", "ForStatement", "FunctionDeclaration", "BlockStatement",
   "TryStatement", "BreakStatement", "ContinueStatement"}

statementTypes ==
  {"VariableDeclaration", "ExpressionStatement", "ReturnStatement", "IfStatement",
   "WhileStatement", "ForStatement", "FunctionDeclaration", "BlockStatement",
   "TryStatement", "ThrowStatement", "BreakStatement", "ContinueStatement"}

isNewStatement(Pg, prevNode, currentNode) ==
  /\ Pg[currentNode].type \in statementTypes
  /\ prevNode # currentNode

\* the test against another status constant
IsTerminalStep(Pg, e) == getStatus(Pg, e) = STEP

IsTerminalAsync(Pg, e) == getStatus(Pg, e) = ASYNC

\* stepStatement's first test: nothing left to run
IsTerminal(Pg, e) == getStatus(Pg, e) = DONE

Null == [type |-> "null", start |-> 0, end |-> 0, value |-> Undef]

\* the Statement object stepStatement builds from startNode
Statement(Pg, node, value) ==
  [type |-> Pg[node].type, start |-> Pg[node].start, end |-> Pg[node].end,
   value |-> value]

\* what stepStatement does with the outcome r of a step() call
AfterStep(Pg, r, start) ==
  [ev |-> r.ev,
   err |-> r.err,
   out |-> IF r.err # "" THEN "throw"
           ELSE IF ~r.ret THEN "last"
           ELSE IF getCurrentStatement(r.ev) = 0
                   \/ isNewStatement(Pg, start, getCurrentStatement(r.ev))
                THEN "boundary"
                ELSE "continue"]

\* a pass that looks ahead on a copy and leaves the evaluator behind on a boundary
LoopPassPeek(Pg, e, start) ==
  LET r == step(Pg, e)
      currentNode == getCurrentStatement(r.ev)
      isNew == r.ret /\ (currentNode = 0 \/ isNewStatement(Pg, start, currentNode))
  IN  [ev |-> IF isNew THEN e ELSE r.ev,
       err |-> r.err,
       out |-> IF r.err # "" THEN "throw"
               ELSE IF ~r.ret THEN "last" ELSE IF isNew THEN "boundary" ELSE "continue"]

\* a pass that catches what step() throws and goes on to "Handle the last statement"
LoopPassCatch(Pg, e, start) ==
  LET r == step(Pg, e)
      currentNode == getCurrentStatement(r.ev)
  IN  [ev |-> r.ev,
       err |-> "",
       out |-> IF r.err # "" \/ ~r.ret THEN "last"
               ELSE IF currentNode = 0 \/ isNewStatement(Pg, start, currentNode)
                    THEN "boundary"
                    ELSE "continue"]

\* one pass of stepStatement's while loop: the step() call and what follows it
\* (no try/catch around it: an error step() throws leaves stepStatement at once)
LoopPass(Pg, e, start) == AfterStep(Pg, step(Pg, e), start)

----------------------------------------------------------------------------
(* History kept for the properties                                         *)

Nulls(seq) == Cardinality({i \in DOMAIN seq : seq[i] = Null})

StackNodes(e) == {e.stack[i].node : i \in DOMAIN e.stack}

\* the nodes whose frame the step from e to e2 popped
Popped(e, e2) ==
  {e.stack[i].node : i \in (Len(e2.stack) + 1)..Len(e.stack)}

DoneValueAfter(e, e2) ==
  [n \in DOMAIN doneValue \cup Popped(e, e2) |->
     IF n \in Popped(e, e2) THEN e2.value ELSE doneValue[n]]

\* descriptors returned before their statement completed learn its completion value
HistAfter(e, e2) ==
  [i \in DOMAIN hist |->
     IF hist[i].pending /\ hist[i].node \in Popped(e, e2)
     THEN [hist[i] EXCEPT !.pending = FALSE, !.doneVal = e2.value]
     ELSE hist[i]]

HistEntry(node, e, e2) ==
  LET dv == DoneValueAfter(e, e2)
  IN  [node |-> node,
       onStack |-> node \in StackNodes(e2),
       running |-> CanStep(P, e2),
       pending |-> node \in StackNodes(e2),
       doneVal |-> IF node \in DOMAIN dv THEN dv[node] ELSE Undef,
       call |-> Len(returned) + 1]

NullEntry ==
  [node |-> 0, onStack |-> FALSE, running |-> CanStep(P, ev), pending |-> FALSE,
   doneVal |-> Undef, call |-> Len(returned) + 1]

----------------------------------------------------------------------------
(* The caller drives a fresh interpreter with stepStatement() alone        *)

\* the script and the rate limiter take no part here
DriverUnused == [timer |-> -1]
LimiterUnused == [callCount |-> 0]

\* No library function is called in the systems that drive an interpreter
\* or a caller object.
CallUnused == [op |-> "none"]

Init ==
  /\ prog \in ProgramNames
  /\ ev = NewInterpreter(Programs[prog])
  /\ pc = "idle"
  /\ startNode = 0
  /\ returned = <<>>
  /\ nsteps = 0
  /\ stepCalls = 0
  /\ doneCalls = 0
  /\ hist = <<>>
  /\ topAtCall = 0
  /\ doneValue = <<>>
  /\ thrown = <<>>
  /\ drv = DriverUnused
  /\ lim = LimiterUnused
  /\ call = CallUnused

MayCall ==
  /\ pc = "idle"
  /\ Nulls(returned) < MaxNullCalls
  /\ doneCalls < MaxNullCalls

CountDone == doneCalls + (IF CanStep(P, ev) THEN 0 ELSE 1)

\* stepStatement() with status DONE: null at once
StepStatementNull ==
  /\ MayCall
  /\ IsTerminal(P, ev)
  /\ returned' = Append(returned, Null)
  /\ hist' = Append(hist, NullEntry)
  /\ doneCalls' = CountDone
  /\ UNCHANGED <<prog, ev, pc, startNode, nsteps, stepCalls, topAtCall,
                 doneValue, thrown, drv, lim, call>>

\* stepStatement() otherwise: take startNode from the top of the frame stack
StepStatementBegin ==
  /\ MayCall
  /\ ~IsTerminal(P, ev)
  /\ doneCalls' = CountDone
  /\ topAtCall' = (IF ev.stack = <<>> THEN 0 ELSE Top(ev.stack).node)
  /\ IF getCurrentStatement(ev) = 0
     THEN /\ returned' = Append(returned, Null)
          /\ hist' = Append(hist, NullEntry)
          /\ UNCHANGED <<pc, startNode>>
     ELSE /\ startNode' = getCurrentStatement(ev)
          /\ pc' = "loop"
          /\ UNCHANGED <<returned, hist>>
  /\ UNCHANGED <<prog, ev, nsteps, stepCalls, doneValue, thrown, drv, lim, call>>

\* a pass of the loop that stays inside the tracked statement
StepStatementContinue ==
  /\ pc = "loop"
  /\ stepCalls < MaxStepCalls
  /\ LET r == LoopPass(P, ev, startNode)
     IN  /\ r.out = "continue"
         /\ ev' = r.ev
         /\ nsteps' = nsteps + 1
         /\ stepCalls' = stepCalls + 1
         /\ hist' = HistAfter(ev, r.ev)
         /\ doneValue' = DoneValueAfter(ev, r.ev)
  /\ UNCHANGED <<prog, pc, startNode, returned, doneCalls, topAtCall, thrown,
                 drv, lim, call>>

\* a pass that finds a new statement on top: return startNode's descriptor
StepStatementBoundary ==
  /\ pc = "loop"
  /\ LET r == LoopPass(P, ev, startNode)
     IN  /\ r.out = "boundary"
         /\ ev' = r.ev
         /\ nsteps' = nsteps + 1
         /\ stepCalls' = stepCalls + 1
         /\ returned' = Append(returned, Statement(P, startNode, getValue(r.ev)))
         /\ hist' = Append(HistAfter(ev, r.ev), HistEntry(startNode, ev, r.ev))
         /\ doneValue' = DoneValueAfter(ev, r.ev)
  /\ pc' = "idle"
  /\ startNode' = 0
  /\ UNCHANGED <<prog, doneCalls, topAtCall, thrown, drv, lim, call>>

\* step() returned false: "Handle the last statement"
StepStatementLast ==
  /\ pc = "loop"
  /\ LET r == LoopPass(P, ev, startNode)
     IN  /\ r.out = "last"
         /\ ev' = r.ev
         /\ stepCalls' = stepCalls + 1
         /\ returned' = Append(returned, Statement(P, startNode, getValue(r.ev)))
         /\ hist' = Append(hist, HistEntry(startNode, ev, r.ev))
  /\ pc' = "idle"
  /\ startNode' = 0
  /\ UNCHANGED <<prog, nsteps, doneCalls, topAtCall, doneValue, thrown, drv, lim, call>>

Next ==
  \/ StepStatementNull
  \/ StepStatementBegin
  \/ StepStatementContinue
  \/ StepStatementBoundary
  \/ StepStatementLast

Spec == Init /\ [][Next]_vars

----------------------------------------------------------------------------
(* Properties of stepStatement()                                           *)

IsDescriptor(d) == d # Null

NonNull(seq) == SelectSeq(seq, IsDescriptor)

NullReturned == Nulls(returned) >= 1

Types(seq) == [i \in DOMAIN seq |-> seq[i].type]

Values(seq) == [i \in DOMAIN seq |-> seq[i].value]

IsStatementKind(n) == n # 0 /\ P[n].type \in statementTypes

\* the nodes stepStatement() has returned a descriptor of
Reported == {hist[i].node : i \in DOMAIN hist} \ {0}

\* the call that returned the first descriptor of node n
FirstRet(n) == CHOOSE i \in DOMAIN hist : hist[i].node = n /\ \A j \in 1..(i - 1) : hist[j].node # n

RECURSIVE StepN(_, _, _)
\* the evaluator after n calls of step() alone
StepN(Pg, e, n) ==
  IF n = 0 THEN e
  ELSE LET e2 == StepEval(Pg, e) IN IF e2.stack = <<>> THEN e2 ELSE StepN(Pg, e2, n - 1)

\* C1: for a program of k top-level statements, stepStatement() repeated on a
\* fresh interpreter returns exactly k non-null descriptors and then null.
C1_ExactlyKDescriptors ==
  NullReturned =>
    /\ Len(NonNull(returned)) = Len(P[1].list)
    /\ \A i \in DOMAIN returned : returned[i] = Null => i > Len(P[1].list)

\* C2: stepping "var x = 1; x = x + 1; if (x === 2) { x = x * 2; } x;" until null
\* yields five descriptors, VariableDeclaration, ExpressionStatement, IfStatement,
\* BlockStatement, ExpressionStatement with the values undefined, 2, true, 4, 4 at
\* the returns, and the final value 4.
C2_IfScenario ==
  (prog = "If" /\ NullReturned) =>
    /\ Types(NonNull(returned)) =
         <<"VariableDeclaration", "ExpressionStatement", "IfStatement",
           "BlockStatement", "ExpressionStatement">>
    /\ Values(NonNull(returned)) = <<Undef, Num(2), Bool(TRUE), Num(4), Num(4)>>
    /\ getValue(ev) = Num(4)

\* C3: stepping "function double(x) { return x * 2; } var result = double(3);
\* result;" until null yields three descriptors, FunctionDeclaration (undefined),
\* VariableDeclaration (6), ExpressionStatement (6); the block and the return of
\* the called function are not reported.
C3_CallScenario ==
  (prog = "Call" /\ NullReturned) =>
    /\ Types(NonNull(returned)) =
         <<"FunctionDeclaration", "VariableDeclaration", "ExpressionStatement">>
    /\ Values(NonNull(returned)) = <<Undef, Num(6), Num(6)>>

\* C4: a descriptor is returned only once the frame of its node has been popped
\* from the frame stack, or the program has terminated; never for a statement
\* whose frame is still on the stack of a running program.
C4_ReturnedAfterPop ==
  \A i \in DOMAIN hist :
    IsStatementKind(hist[i].node) => ~(hist[i].onStack /\ hist[i].running)

\* C5: every non-null descriptor carries the type, start and end of a node whose
\* kind is in the statement set (never the Program root); the first call returns
\* the first top-level statement's descriptor and the second call the second's.
C5_StatementNodesOnly ==
  /\ \A i \in DOMAIN returned :
       returned[i] # Null => returned[i].type \in statementTypes
  /\ \A i \in {1, 2} :
       (i <= Len(returned) /\ i <= Len(P[1].list)) =>
         /\ returned[i].type = P[P[1].list[i]].type
         /\ returned[i].start = P[P[1].list[i]].start
         /\ returned[i].end = P[P[1].list[i]].end

\* C6: once a program has been stepped to the end with stepStatement() (null was
\* returned), the evaluator's value equals the value after run() on a fresh
\* interpreter of the same program, and the status is DONE.
C6_SameAsRun ==
  NullReturned =>
    /\ getValue(ev) = getValue(run(P, NewInterpreter(P)).ev)
    /\ getStatus(P, ev) = DONE
    /\ getStatus(P, run(P, NewInterpreter(P)).ev) = DONE

C6_Witness ==
  /\ prog = "If"
  /\ NullReturned
  /\ Len(NonNull(returned)) > 0
  /\ getValue(ev) = Num(4)

\* C7: with status DONE a stepStatement() call returns null at once, without a
\* step() call and leaving the evaluator unchanged; and once null has been
\* returned every later call returns null.
C7_NullWhenDone ==
  [][/\ (pc = "idle" /\ EvalStatus(P, ev) = DONE) =>
          /\ returned' = Append(returned, Null)
          /\ ev' = ev
          /\ stepCalls' = stepCalls
          /\ pc' = "idle"
     /\ (NullReturned /\ returned' # returned) => returned' = Append(returned, Null)
    ]_vars

C7_Witness ==
  /\ Nulls(returned) = 2
  /\ doneCalls = 2
  /\ Len(NonNull(returned)) > 1

\* C8: the value of each descriptor equals the evaluator's value at the moment
\* the described statement completed (its frame was popped).
C8_ValueAtCompletion ==
  \A i \in DOMAIN hist :
    (IsStatementKind(hist[i].node) /\ ~hist[i].pending) =>
      returned[i].value = hist[i].doneVal

\* C9: of two reported statements, the one that comes first in the source has
\* its first descriptor returned by the strictly earlier call, also when the
\* second is nested inside the first.
C9_SourceOrder ==
  \A a \in Reported : \A b \in Reported :
    (IsStatementKind(a) /\ IsStatementKind(b) /\ P[a].start < P[b].start) =>
      FirstRet(a) < FirstRet(b)

\* C10: the calls resume where the previous call stopped: the tracked statement
\* is taken anew from the top of the frame stack at each call, and the evaluator
\* is always in the state that the same number of step() calls alone produces.
C10_ResumesWhereStopped ==
  /\ ev = StepN(P, NewInterpreter(P), nsteps)
  /\ stepCalls \in {nsteps, nsteps + 1}
  /\ pc = "loop" => startNode = topAtCall
  /\ pc = "idle" => startNode = 0

C10_Witness ==
  /\ pc = "loop"
  /\ Len(NonNull(returned)) >= 2
  /\ nsteps > 2
  /\ startNode = Top(ev.stack).node
  /\ IsStatementKind(startNode)

----------------------------------------------------------------------------
(* stepStatement() over programs whose execution raises an error           *)

\* what the caller's initFunc registers, per program constructed with one
InitFuncs == [Alert |-> [alert |-> Native]]

\* createInterpreterWithInit(code, initFunc): builds the wrapper from the code alone
createInterpreterWithInit(Pg, initFunc) == NewInterpreter(Pg)

Construct(name) ==
  IF name \in DOMAIN InitFuncs
  THEN createInterpreterWithInit(AllPrograms[name], InitFuncs[name])
  ELSE NewInterpreter(AllPrograms[name])

InitFault ==
  /\ prog \in ProgramNames \cup DOMAIN FaultyPrograms
  /\ ev = Construct(prog)
  /\ pc = "idle"
  /\ startNode = 0
  /\ returned = <<>>
  /\ nsteps = 0
  /\ stepCalls = 0
  /\ doneCalls = 0
  /\ hist = <<>>
  /\ topAtCall = 0
  /\ doneValue = <<>>
  /\ thrown = <<>>
  /\ drv = DriverUnused
  /\ lim = LimiterUnused
  /\ call = CallUnused

\* a pass whose step() call throws: the error leaves stepStatement()
StepStatementThrow ==
  /\ pc = "loop"
  /\ LET r == LoopPass(P, ev, startNode)
     IN  /\ r.out = "throw"
         /\ ev' = r.ev
         /\ thrown' = Append(thrown, r.err)
         /\ nsteps' = nsteps + 1
         /\ stepCalls' = stepCalls + 1
         /\ hist' = HistAfter(ev, r.ev)
         /\ doneValue' = DoneValueAfter(ev, r.ev)
  /\ pc' = "idle"
  /\ startNode' = 0
  /\ UNCHANGED <<prog, returned, doneCalls, topAtCall, drv, lim, call>>

NextFault ==
  \/ StepStatementNull
  \/ StepStatementBegin
  \/ StepStatementContinue
  \/ StepStatementBoundary
  \/ StepStatementLast
  \/ StepStatementThrow

SpecFault == InitFault /\ [][NextFault]_vars

\* C11: when the step() call inside stepStatement() throws, the call ends there with
\* that same error raised to its caller and no descriptor returned; and the calls
\* raise no error but one step() threw.
C11_StepErrorPropagates ==
  [][/\ (pc = "loop" /\ step(P, ev).err # "") =>
          /\ thrown' = Append(thrown, step(P, ev).err)
          /\ returned' = returned
          /\ pc' = "idle"
     /\ (thrown' # thrown) => (pc = "loop" /\ step(P, ev).err # "")]_vars

\* a thrown value and a ReferenceError have both reached the caller
C11_Witness ==
  /\ thrown # <<>>
  /\ thrown[1] \in {"Thrown", "ReferenceError"}
  /\ Len(returned) >= 2

\* C20: the bindings the initFunc given to createInterpreterWithInit registers are
\* in the global scope of the interpreter from its first step on.
C20_InitFuncApplied ==
  prog \in DOMAIN InitFuncs =>
    \A name \in DOMAIN InitFuncs[prog] :
      /\ name \in DOMAIN ev.scopes[1].vars
      /\ ev.scopes[1].vars[name] = InitFuncs[prog][name]

----------------------------------------------------------------------------
(* The runToCompletion script: run(), and a retry timer while run() reports *)
(* an async call in progress.  drv.timers holds the remaining delay of each *)
(* pending timer; drv.runs, drv.ret describe the latest invocation.         *)

\* setTimeout(runToCompletion, 10)
RetryDelay == 10

\* results a host function may hand to its callback
HostValues == {Num(1), Num(2)}

\* what the script's initFunc registers, and the host's async function
ScriptBindings == [alert |-> Native, fetch |-> Async]

ScriptPrograms == DOMAIN AsyncPrograms \cup {"Sum"}

\* a body with no retry: run() once and return
AfterRunOnce(r, timers) ==
  [ev |-> r.ev, timers |-> timers, runs |-> 1, ret |-> r.ret]

\* a body that sets the retry timer whatever run() returned
AfterRunAlways(r, timers) ==
  [ev |-> r.ev, timers |-> Append(timers, RetryDelay), runs |-> 1, ret |-> r.ret]

\* a body that calls run() a second time before it sets the timer
AfterRunAgain(r, timers) ==
  [ev |-> r.ev,
   timers |-> IF r.ret THEN Append(timers, RetryDelay) ELSE timers,
   runs |-> IF r.ret THEN 2 ELSE 1,
   ret |-> r.ret]

\* a body that sets the retry timer twice
AfterRunDouble(r, timers) ==
  [ev |-> r.ev,
   timers |-> IF r.ret THEN Append(Append(timers, RetryDelay), RetryDelay) ELSE timers,
   runs |-> 1,
   ret |-> r.ret]

\* the body of runToCompletion after its run() call returned r
AfterRun(r, timers) ==
  [ev |-> r.ev,
   timers |-> IF r.ret THEN Append(timers, RetryDelay) ELSE timers,
   runs |-> 1,
   ret |-> r.ret]

runToCompletion(Pg, e, timers) == AfterRun(run(Pg, e), timers)

\* remove the i-th element
Without(seq, i) == SubSeq(seq, 1, i - 1) \o SubSeq(seq, i + 1, Len(seq))

DriverInit ==
  [started |-> FALSE, timers |-> <<>>, parity |-> 0, runs |-> 0, ret |-> FALSE,
   finished |-> FALSE, polled |-> FALSE, resolved |-> 0]

InitDriver ==
  /\ prog \in ScriptPrograms
  /\ ev = Interpreter(AllPrograms[prog], ScriptBindings)
  /\ drv = DriverInit
  /\ pc = "idle"
  /\ startNode = 0
  /\ returned = <<>>
  /\ nsteps = 0
  /\ stepCalls = 0
  /\ doneCalls = 0
  /\ hist = <<>>
  /\ topAtCall = 0
  /\ doneValue = <<>>
  /\ thrown = <<>>
  /\ lim = LimiterUnused
  /\ call = CallUnused

\* one invocation of runToCompletion with the outcome r of its body
Invoked(r) ==
  /\ ev' = r.ev
  /\ drv' = [drv EXCEPT !.started = TRUE,
                        !.timers = r.timers,
                        !.parity = 1 - @,
                        !.runs = r.runs,
                        !.ret = r.ret,
                        !.finished = @ \/ ~r.ret,
                        !.polled = @ \/ ev.paused]
  /\ UNCHANGED <<prog, pc, startNode, returned, nsteps, stepCalls, doneCalls,
                 hist, topAtCall, doneValue, thrown, lim, call>>

\* the script's own call: runToCompletion();
DriverStart ==
  /\ ~drv.started
  /\ Invoked(runToCompletion(P, ev, drv.timers))

\* a due timer fires and calls runToCompletion
TimerFire ==
  \E i \in DOMAIN drv.timers :
    /\ drv.timers[i] = 0
    /\ Invoked(runToCompletion(P, ev, Without(drv.timers, i)))

\* time passes: every pending timer comes one unit closer
Tick ==
  /\ drv.timers # <<>>
  /\ \A i \in DOMAIN drv.timers : drv.timers[i] > 0
  /\ drv' = [drv EXCEPT !.timers = [i \in DOMAIN drv.timers |-> drv.timers[i] - 1]]
  /\ UNCHANGED <<prog, ev, pc, startNode, returned, nsteps, stepCalls, doneCalls,
                 hist, topAtCall, doneValue, thrown, lim, call>>

\* the host completes the pending async call through its callback
HostResolve ==
  /\ ev.paused
  /\ \E val \in HostValues : ev' = asyncCallback(ev, val)
  /\ drv' = [drv EXCEPT !.resolved = IF @ < 2 THEN @ + 1 ELSE @]
  /\ UNCHANGED <<prog, pc, startNode, returned, nsteps, stepCalls, doneCalls,
                 hist, topAtCall, doneValue, thrown, lim, call>>

NextDriver ==
  \/ DriverStart
  \/ TimerFire
  \/ Tick
  \/ HostResolve

SpecDriver == InitDriver /\ [][NextDriver]_vars

\* timers eventually fire, time passes, and the host eventually resolves
SpecDriverFair ==
  /\ SpecDriver
  /\ WF_vars(DriverStart)
  /\ WF_vars(TimerFire)
  /\ WF_vars(Tick)
  /\ WF_vars(HostResolve)

\* a step that is an invocation of runToCompletion
IsInvocation == drv'.parity # drv.parity

\* C12: an invocation of runToCompletion makes exactly one run() call; when that call
\* returns true it ends with exactly one retry pending, due in RetryDelay, and with
\* the evaluator still paused where run() left it.
C12_OneRetryPerPause ==
  [][IsInvocation =>
       /\ drv'.runs = 1
       /\ drv'.ret = run(P, ev).ret
       /\ drv'.ret => /\ drv'.timers = <<RetryDelay>>
                      /\ ev'.paused
                      /\ ev' = run(P, ev).ev]_vars

\* an invocation that found the call still unresolved has set the retry again
C12_Witness ==
  /\ drv.polled
  /\ drv.ret
  /\ drv.timers = <<RetryDelay>>
  /\ ev.paused

\* C13: the invocation whose run() returns false leaves no timer pending, and from
\* then on no timer is set and runToCompletion is not invoked again.
C13_StopsWhenDone ==
  [][/\ (IsInvocation /\ ~drv'.ret) => (drv'.timers = <<>> /\ drv'.finished)
     /\ drv.finished => (~IsInvocation /\ drv'.timers = <<>> /\ ev' = ev)]_vars

\* run() has returned false after at least one retry
C13_Witness ==
  /\ drv.finished
  /\ drv.polled
  /\ drv.timers = <<>>
  /\ ~CanStep(P, ev)

\* the host has resolved and the program has more to run
Resumable == drv.started /\ ~ev.paused /\ ~drv.finished

\* C14: with timers firing and the host resolving, run() eventually returns false;
\* and whenever the host has resolved a call, one retry is pending whose firing
\* resumes the program: no further cycle is spent waiting.
C14_EventuallyDone ==
  /\ [](Resumable => Len(drv.timers) = 1)
  /\ [][(Resumable /\ IsInvocation) => (ev' # ev /\ (drv'.finished \/ ev'.paused))]_vars
  /\ <>(drv.finished)

\* a program with two async calls has run to completion through retries
C14_Witness ==
  /\ prog = "Fetch2"
  /\ drv.finished
  /\ drv.resolved = 2
  /\ drv.polled

\* C29: at most one retry timer is pending at any time; an invocation of
\* runToCompletion is the script's own call, made with no timer set, or the
\* firing of the one pending timer; and it makes one run() call that takes the
\* evaluator on from where the invocation before and the host left it.
C29_OneTimerSequentialRuns ==
  [][/\ Len(drv.timers) <= 1
     /\ Len(drv'.timers) <= 1
     /\ IsInvocation =>
          /\ \/ ~drv.started /\ drv.timers = <<>>
             \/ drv.started /\ drv.timers = <<0>>
          /\ drv'.runs = 1
          /\ ev' = run(P, ev).ev]_vars

\* the one pending retry is due while the program, resumed by the host, has
\* more to run
C29_Witness ==
  /\ drv.started
  /\ drv.polled
  /\ drv.timers = <<0>>
  /\ ~ev.paused
  /\ CanStep(P, ev)

----------------------------------------------------------------------------
(* RateLimitedCaller and mainModule's loop over the dataset.               *)
(* lim.now is the clock in seconds; lim.calls holds one record per call    *)
(* started, in the order the calls were started:                           *)
(*   st      "delaying" (inside delay()), "calling" (admitted, the API     *)
(*           call under way), "resolved" or "rejected"                     *)
(*   arrive  Date.now() read by waitForRateLimit                           *)
(*   delay   the remainingTime waited for (0: none)                        *)
(*   admit   the time of admission (-1: not yet)                           *)
(*   path    "reset", "wait" or "nowait"                                   *)
(*   taskError  the error the API call rejected with ("": none)            *)
(*   result  what the promise of callAIApiToGenerateCode settled with      *)

\* new RateLimitedCaller(rateLimit, timeWindowSeconds), scaled down
RateLimit == 2
TimeWindow == 3
\* rows of the dataset
NumRows == 5
\* the clock stops here
MaxTime == 7

\* the errors the API call may reject with
TaskErrors == {"ApiError", "Timeout"}

NoResult == [kind |-> "pending", error |-> ""]

\* the test made with > in place of >=
waitForRateLimitOver(c, now) ==
  LET timeElapsed == now - c.lastResetTime
  IN  IF timeElapsed >= TimeWindow
      THEN [callCount |-> 0, lastResetTime |-> now, delay |-> 0, path |-> "reset"]
      ELSE IF c.callCount > RateLimit
      THEN [callCount |-> c.callCount, lastResetTime |-> c.lastResetTime,
            delay |-> TimeWindow - timeElapsed, path |-> "wait"]
      ELSE [callCount |-> c.callCount + 1, lastResetTime |-> c.lastResetTime,
            delay |-> 0, path |-> "nowait"]

\* waitForRateLimit up to its await: the counters it leaves, the path taken and
\* the delay asked for (on "wait" the increment follows the delay)
waitForRateLimit(c, now) ==
  LET timeElapsed == now - c.lastResetTime
  IN  IF timeElapsed >= TimeWindow
      THEN [callCount |-> 0, lastResetTime |-> now, delay |-> 0, path |-> "reset"]
      ELSE IF c.callCount >= RateLimit
      THEN [callCount |-> c.callCount, lastResetTime |-> c.lastResetTime,
            delay |-> TimeWindow - timeElapsed, path |-> "wait"]
      ELSE [callCount |-> c.callCount + 1, lastResetTime |-> c.lastResetTime,
            delay |-> 0, path |-> "nowait"]

\* a failure that gives the call's admission back
afterTaskRefund(c, outcome) ==
  [callCount |-> IF outcome.kind = "rejected" /\ c.callCount > 0
                 THEN c.callCount - 1 ELSE c.callCount,
   lastResetTime |-> c.lastResetTime,
   result |-> outcome]

\* callAIApiToGenerateCode once the awaited API call has settled with outcome:
\* no catch, and nothing touches the counters
afterTask(c, outcome) ==
  [callCount |-> c.callCount, lastResetTime |-> c.lastResetTime, result |-> outcome]

\* a loop that starts every call without awaiting the one before
MayStartNoAwait(calls) == TRUE

\* mainModule's loop: the next call starts when the awaited one has resolved
MayStart(calls) ==
  IF calls = <<>> THEN TRUE ELSE calls[Len(calls)].st = "resolved"

InFlight(calls) == {i \in DOMAIN calls : calls[i].st \in {"delaying", "calling"}}

\* awaits: the caller awaits each call before it starts the next, as
\* mainModule's loop does
LimiterInit ==
  [now |-> 0, callCount |-> 0, lastResetTime |-> 0, calls |-> <<>>,
   admitted |-> <<>>, main |-> "running", sinceReset |-> 0, inWindow |-> 0,
   awaits |-> TRUE]

InitLimiter ==
  /\ lim = LimiterInit
  /\ prog = "Empty"
  /\ ev = NewInterpreter(AllPrograms["Empty"])
  /\ drv = DriverUnused
  /\ call = CallUnused
  /\ pc = "idle"
  /\ startNode = 0
  /\ returned = <<>>
  /\ nsteps = 0
  /\ stepCalls = 0
  /\ doneCalls = 0
  /\ hist = <<>>
  /\ topAtCall = 0
  /\ doneValue = <<>>
  /\ thrown = <<>>

LimiterOnly ==
  UNCHANGED <<prog, ev, pc, startNode, returned, nsteps, stepCalls, doneCalls,
              hist, topAtCall, doneValue, thrown, drv, call>>

\* the loop may start the call for the next row
CanCall ==
  /\ lim.main = "running"
  /\ Len(lim.calls) < NumRows
  /\ lim.awaits => MayStart(lim.calls)

\* the record of a call that took path w.path at time lim.now
Started(w) ==
  [st |-> IF w.path = "wait" THEN "delaying" ELSE "calling",
   arrive |-> lim.now,
   delay |-> w.delay,
   admit |-> IF w.path = "wait" THEN -1 ELSE lim.now,
   path |-> w.path,
   taskError |-> "",
   result |-> NoResult]

\* callAIApiToGenerateCode: the window has passed, reset and go ahead
CallReset ==
  /\ CanCall
  /\ LET w == waitForRateLimit(lim, lim.now)
     IN  /\ w.path = "reset"
         /\ lim' = [lim EXCEPT !.callCount = w.callCount,
                               !.lastResetTime = w.lastResetTime,
                               !.calls = Append(@, Started(w)),
                               !.admitted = Append(@, Len(lim.calls) + 1),
                               !.sinceReset = 1,
                               !.inWindow = 1]
  /\ LimiterOnly

\* callAIApiToGenerateCode: under the limit, count and go ahead
CallAdmit ==
  /\ CanCall
  /\ LET w == waitForRateLimit(lim, lim.now)
     IN  /\ w.path = "nowait"
         /\ lim' = [lim EXCEPT !.callCount = w.callCount,
                               !.lastResetTime = w.lastResetTime,
                               !.calls = Append(@, Started(w)),
                               !.admitted = Append(@, Len(lim.calls) + 1),
                               !.sinceReset = @ + 1,
                               !.inWindow = @ + 1]
  /\ LimiterOnly

\* callAIApiToGenerateCode: limit reached, wait for the rest of the window
CallSuspend ==
  /\ CanCall
  /\ LET w == waitForRateLimit(lim, lim.now)
     IN  /\ w.path = "wait"
         /\ lim' = [lim EXCEPT !.callCount = w.callCount,
                               !.lastResetTime = w.lastResetTime,
                               !.calls = Append(@, Started(w))]
  /\ LimiterOnly

\* the delay is over: waitForRateLimit counts the call and returns
DelayDone ==
  /\ \E i \in DOMAIN lim.calls :
       /\ lim.calls[i].st = "delaying"
       /\ lim.now >= lim.calls[i].arrive + lim.calls[i].delay
       /\ lim' = [lim EXCEPT !.callCount = @ + 1,
                             !.calls[i].st = "calling",
                             !.calls[i].admit = lim.now,
                             !.admitted = Append(@, i),
                             !.sinceReset = @ + 1,
                             !.inWindow =
                                IF lim.now < lim.lastResetTime + TimeWindow
                                THEN @ + 1 ELSE @]
  /\ LimiterOnly

\* the API call resolves: callAIApiToGenerateCode returns to the loop
ApiResolve ==
  /\ \E i \in DOMAIN lim.calls :
       /\ lim.calls[i].st = "calling"
       /\ LET a == afterTask(lim, [kind |-> "resolved", error |-> ""])
          IN  lim' = [lim EXCEPT !.callCount = a.callCount,
                                 !.lastResetTime = a.lastResetTime,
                                 !.calls[i].st = "resolved",
                                 !.calls[i].result = a.result,
                                 !.main = IF i = NumRows THEN "done" ELSE @]
  /\ LimiterOnly

\* the API call rejects: the promise rejects, and the loop's await throws
ApiReject ==
  /\ \E i \in DOMAIN lim.calls, err \in TaskErrors :
       /\ lim.calls[i].st = "calling"
       /\ LET a == afterTask(lim, [kind |-> "rejected", error |-> err])
          IN  lim' = [lim EXCEPT !.callCount = a.callCount,
                                 !.lastResetTime = a.lastResetTime,
                                 !.calls[i].st = a.result.kind,
                                 !.calls[i].taskError = err,
                                 !.calls[i].result = a.result,
                                 !.main = IF a.result.kind = "rejected"
                                          THEN "rejected" ELSE @]
  /\ LimiterOnly

\* a second passes
ClockTick ==
  /\ lim.now < MaxTime
  /\ lim' = [lim EXCEPT !.now = @ + 1]
  /\ LimiterOnly

NextLimiter ==
  \/ CallReset
  \/ CallAdmit
  \/ CallSuspend
  \/ DelayDone
  \/ ApiResolve
  \/ ApiReject
  \/ ClockTick

SpecLimiter == InitLimiter /\ [][NextLimiter]_vars

\* C15: counted from a reset point (construction, or the latest reset of
\* lastResetTime), the call that made the reset included, at most RateLimit calls
\* are admitted before TimeWindow has passed.
C15_AtMostLimitPerWindow == lim.inWindow <= RateLimit

\* C16: on a fresh caller, a call started before the first window has passed is
\* admitted at once when it is among the first RateLimit calls, and call
\* RateLimit + 1 is held for the rest of the window, TimeWindow less the time
\* elapsed, before it is admitted.
C16_FirstLimitThenWait ==
  \A k \in DOMAIN lim.calls :
    LET c == lim.calls[k]
    IN  c.arrive < TimeWindow =>
          /\ k <= RateLimit =>
               (c.path = "nowait" /\ c.delay = 0 /\ c.admit = c.arrive)
          /\ k = RateLimit + 1 =>
               /\ c.path = "wait"
               /\ c.st = "delaying" => c.admit = -1
               /\ c.delay = TimeWindow - c.arrive
               /\ c.admit # -1 => c.admit >= c.arrive + c.delay

\* call RateLimit + 1 came part way through the window, waited and was admitted
C16_Witness ==
  /\ Len(lim.calls) > RateLimit
  /\ lim.calls[RateLimit + 1].arrive > 0
  /\ lim.calls[RateLimit + 1].path = "wait"
  /\ lim.calls[RateLimit + 1].admit = TimeWindow
  /\ \A k \in 1..RateLimit : lim.calls[k].admit = lim.calls[k].arrive

\* C17: callCount is the number of calls admitted since the latest reset (since
\* construction when there was none), the call that made the reset included.
C17_CountIsAdmissions == lim.callCount = lim.sinceReset

\* C18: when the API call of an admitted call rejects, the promise of
\* callAIApiToGenerateCode rejects with that error, and callCount, lastResetTime
\* and the record of admissions are as they were before the failure.
C18_FailureKeepsCount ==
  [][\A i \in DOMAIN lim.calls :
       (lim.calls[i].taskError = "" /\ lim'.calls[i].taskError # "") =>
         /\ lim'.calls[i].result =
              [kind |-> "rejected", error |-> lim'.calls[i].taskError]
         /\ lim'.main = "rejected"
         /\ lim'.callCount = lim.callCount
         /\ lim'.lastResetTime = lim.lastResetTime
         /\ lim'.admitted = lim.admitted
         /\ \E k \in DOMAIN lim.admitted : lim.admitted[k] = i]_vars

\* a call admitted after waiting has failed, its increment still in callCount
C18_Witness ==
  /\ lim.main = "rejected"
  /\ lim.callCount = RateLimit + 1
  /\ \E i \in DOMAIN lim.calls :
       /\ lim.calls[i].path = "wait"
       /\ lim.calls[i].result.kind = "rejected"
       /\ lim.calls[i].result.error = "Timeout"

\* C19: the loop has at most one call in flight, every call before the latest
\* has resolved, and the calls are admitted in dataset order.
C19_OneAtATimeInOrder ==
  /\ Cardinality(InFlight(lim.calls)) <= 1
  /\ \A i \in DOMAIN lim.calls : i < Len(lim.calls) => lim.calls[i].st = "resolved"
  /\ \A k \in DOMAIN lim.admitted : lim.admitted[k] = k

\* the whole dataset went through, one call of it after a wait
C19_Witness ==
  /\ lim.main = "done"
  /\ Len(lim.admitted) = NumRows
  /\ \E i \in DOMAIN lim.calls : lim.calls[i].path = "wait"

(***************************************************************************)
(* The caller drives a fresh interpreter with step() alone, as the test    *)
(* loop "while (interpreter.step())" does, and reads getStatus() after     *)
(* every call.  call holds the last call, what it returned and the status  *)
(* read after it.                                                          *)
(***************************************************************************)

Called(r) ==
  [op |-> "step", ret |-> r.ret, status |-> getStatus(P, r.ev)]

InitStep ==
  /\ prog \in ProgramNames
  /\ ev = NewInterpreter(P)
  /\ pc = "idle"
  /\ startNode = 0
  /\ returned = <<>>
  /\ nsteps = 0
  /\ stepCalls = 0
  /\ doneCalls = 0
  /\ hist = <<>>
  /\ topAtCall = 0
  /\ doneValue = <<>>
  /\ thrown = <<>>
  /\ drv = DriverUnused
  /\ lim = LimiterUnused
  /\ call = [op |-> "create", ret |-> TRUE, status |-> getStatus(P, ev)]

StepOnly ==
  UNCHANGED <<prog, pc, startNode, returned, doneCalls, hist, topAtCall,
              doneValue, thrown, drv, lim>>

\* step() took a step: the loop goes on
StepTrue ==
  /\ call.ret
  /\ step(P, ev).ret
  /\ ev' = step(P, ev).ev
  /\ call' = Called(step(P, ev))
  /\ nsteps' = nsteps + 1
  /\ stepCalls' = stepCalls + 1
  /\ StepOnly

\* step() found nothing left to run: the loop ends
StepFalse ==
  /\ call.ret
  /\ ~step(P, ev).ret
  /\ ev' = step(P, ev).ev
  /\ call' = Called(step(P, ev))
  /\ nsteps' = nsteps
  /\ stepCalls' = stepCalls + 1
  /\ StepOnly

NextStep ==
  \/ StepTrue
  \/ StepFalse

SpecStep == InitStep /\ [][NextStep]_vars

ProgIncGood ==
  <<
    N("Program", 0, 33, "", "", 0, 0, 0, 0, <<2>>, <<>>),
    N("FunctionDeclaration", 0, 33, "inc", "", 0, 0, 3, 0, <<>>, <<"x">>),
    N("BlockStatement", 16, 33, "", "", 0, 0, 0, 0, <<4>>, <<>>),
    N("ReturnStatement", 18, 31, "", "", 0, 5, 0, 0, <<>>, <<>>),
    N("BinaryExpression", 25, 30, "", "+", 0, 6, 7, 0, <<>>, <<>>),
    N("Identifier", 25, 26, "x", "", 0, 0, 0, 0, <<>>, <<>>),
    N("Literal", 29, 30, "", "", 1, 0, 0, 0, <<>>, <<>>)
  >>

\* function inc(x) { return x + 2; }
ProgIncBad ==
  <<
    N("Program", 0, 33, "", "", 0, 0, 0, 0, <<2>>, <<>>),
    N("FunctionDeclaration", 0, 33, "inc", "", 0, 0, 3, 0, <<>>, <<"x">>),
    N("BlockStatement", 16, 33, "", "", 0, 0, 0, 0, <<4>>, <<>>),
    N("ReturnStatement", 18, 31, "", "", 0, 5, 0, 0, <<>>, <<>>),
    N("BinaryExpression", 25, 30, "", "+", 0, 6, 7, 0, <<>>, <<>>),
    N("Identifier", 25, 26, "x", "", 0, 0, 0, 0, <<>>, <<>>),
    N("Literal", 29, 30, "", "", 2, 0, 0, 0, <<>>, <<>>)
  >>

\* function inc(x) { return x + 1; } + if (inc(1) === 2) { 1; } else { throw 0; }
ProgIncGoodTest ==
  <<
    N("Program", 0, 77, "", "", 0, 0, 0, 0, <<2, 8>>, <<>>),
    N("FunctionDeclaration", 0, 33, "inc", "", 0, 0, 3, 0, <<>>, <<"x">>),
    N("BlockStatement", 16, 33, "", "", 0, 0, 0, 0, <<4>>, <<>>),
    N("ReturnStatement", 18, 31, "", "", 0, 5, 0, 0, <<>>, <<>>),
    N("BinaryExpression", 25, 30, "", "+", 0, 6, 7, 0, <<>>, <<>>),
    N("Identifier", 25, 26, "x", "", 0, 0, 0, 0, <<>>, <<>>),
    N("Literal", 29, 30, "", "", 1, 0, 0, 0, <<>>, <<>>),
    N("IfStatement", 35, 77, "", "", 0, 9, 14, 17, <<>>, <<>>),
    N("BinaryExpression", 39, 51, "", "===", 0, 10, 13, 0, <<>>, <<>>),
    N("CallExpression", 39, 45, "", "", 0, 11, 0, 0, <<12>>, <<>>),
    N("Identifier", 39, 42, "inc", "", 0, 0, 0, 0, <<>>, <<>>),
    N("Literal", 43, 44, "", "", 1, 0, 0, 0, <<>>, <<>>),
    N("Literal", 50, 51, "", "", 2, 0, 0, 0, <<>>, <<>>),
    N("BlockStatement", 53, 59, "", "", 0, 0, 0, 0, <<15>>, <<>>),
    N("ExpressionStatement", 55, 57, "", "", 0, 16, 0, 0, <<>>, <<>>),
    N("Literal", 55, 56, "", "", 1, 0, 0, 0, <<>>, <<>>),
    N("BlockStatement", 65, 77, "", "", 0, 0, 0, 0, <<18>>, <<>>),
    N("ThrowStatement", 67, 75, "", "", 0, 19, 0, 0, <<>>, <<>>),
    N("Literal", 73, 74, "", "", 0, 0, 0, 0, <<>>, <<>>)
  >>

\* function inc(x) { return x + 2; } + if (inc(1) === 2) { 1; } else { throw 0; }
ProgIncBadTest ==
  <<
    N("Program", 0, 77, "", "", 0, 0, 0, 0, <<2, 8>>, <<>>),
    N("FunctionDeclaration", 0, 33, "inc", "", 0, 0, 3, 0, <<>>, <<"x">>),
    N("BlockStatement", 16, 33, "", "", 0, 0, 0, 0, <<4>>, <<>>),
    N("ReturnStatement", 18, 31, "", "", 0, 5, 0, 0, <<>>, <<>>),
    N("BinaryExpression", 25, 30, "", "+", 0, 6, 7, 0, <<>>, <<>>),
    N("Identifier", 25, 26, "x", "", 0, 0, 0, 0, <<>>, <<>>),
    N("Literal", 29, 30, "", "", 2, 0, 0, 0, <<>>, <<>>),
    N("IfStatement", 35, 77, "", "", 0, 9, 14, 17, <<>>, <<>>),
    N("BinaryExpression", 39, 51, "", "===", 0, 10, 13, 0, <<>>, <<>>),
    N("CallExpression", 39, 45, "", "", 0, 11, 0, 0, <<12>>, <<>>),
    N("Identifier", 39, 42, "inc", "", 0, 0, 0, 0, <<>>, <<>>),
    N("Literal", 43, 44, "", "", 1, 0, 0, 0, <<>>, <<>>),
    N("Literal", 50, 51, "", "", 2, 0, 0, 0, <<>>, <<>>),
    N("BlockStatement", 53, 59, "", "", 0, 0, 0, 0, <<15>>, <<>>),
    N("ExpressionStatement", 55, 57, "", "", 0, 16, 0, 0, <<>>, <<>>),
    N("Literal", 55, 56, "", "", 1, 0, 0, 0, <<>>, <<>>),
    N("BlockStatement", 65, 77, "", "", 0, 0, 0, 0, <<18>>, <<>>),
    N("ThrowStatement", 67, 75, "", "", 0, 19, 0, 0, <<>>, <<>>),
    N("Literal", 73, 74, "", "", 0, 0, 0, 0, <<>>, <<>>)
  >>

\* the generated program files: the code alone, and the code followed by the
\* test code ("code + test" above stands for the two joined by a blank line)
TaskPrograms ==
  [IncGood |-> ProgIncGood, IncBad |-> ProgIncBad,
   IncGoodTest |-> ProgIncGoodTest, IncBadTest |-> ProgIncBadTest]

Code(n) == IF n \in DOMAIN TaskPrograms THEN TaskPrograms[n] ELSE AllPrograms[n]

\* new Interpreter(code): no initFunc, nothing registered on the global scope
NoBindings == [k \in {} |-> Undef]

\* what run(code) gives back, or the error it throws
RunResult(r) ==
  IF r.err # ""
  THEN [kind |-> "throw", error |-> r.err]
  ELSE [kind |-> "return", success |-> r.ret, value |-> getValue(r.ev),
        interpreter |-> r.ev]

\* run(code): evaluate the code on a new interpreter
runCode(Pg) == RunResult(run(Pg, Interpreter(Pg, NoBindings)))

InitLib ==
  /\ prog = "Empty"
  /\ ev = NewInterpreter(P)
  /\ pc = "idle"
  /\ startNode = 0
  /\ returned = <<>>
  /\ nsteps = 0
  /\ stepCalls = 0
  /\ doneCalls = 0
  /\ hist = <<>>
  /\ topAtCall = 0
  /\ doneValue = <<>>
  /\ thrown = <<>>
  /\ drv = DriverUnused
  /\ lim = LimiterUnused
  /\ call = CallUnused

LibOnly ==
  UNCHANGED <<prog, ev, pc, startNode, returned, nsteps, stepCalls, doneCalls,
              hist, topAtCall, doneValue, thrown, drv, lim>>

CallRun ==
  /\ call.op = "none"
  /\ \E n \in DOMAIN AllPrograms \cup DOMAIN TaskPrograms :
       call' = [op |-> "run", code |-> n, result |-> runCode(Code(n))]
  /\ LibOnly

\* executeJavaScriptString: true unless run(code) throws
executeJavaScriptString(Pg) == runCode(Pg).kind = "return"

\* the files executeAllProgramCodes reads: code is the generated program;
\* combined is code + test code, which it writes to <id>_combined.js (the
\* last file has no test code)
ProgramCodes ==
  {[id |-> "IncGood", code |-> "IncGood", combined |-> "IncGoodTest"],
   [id |-> "IncBad", code |-> "IncBad", combined |-> "IncBadTest"],
   [id |-> "Throw", code |-> "Throw", combined |-> "Throw"]}

\* executeAllProgramCodes, one file: the result it records for the file
CallExecute ==
  /\ call.op = "none"
  /\ \E f \in ProgramCodes :
       call' = [op |-> "execute", file |-> f.id, combined |-> f.combined,
                result |-> executeJavaScriptString(Code(f.code))]
  /\ LibOnly

\* the kinds of node a parsed program can hold
NodeKinds ==
  {"Program", "VariableDeclaration", "ExpressionStatement", "ReturnStatement",
   "IfStatement", "WhileStatement", "ForStatement", "FunctionDeclaration",
   "BlockStatement", "TryStatement", "ThrowStatement", "BreakStatement",
   "ContinueStatement", "EmptyStatement", "DoWhileStatement", "ForInStatement",
   "SwitchStatement", "LabeledStatement", "Identifier", "Literal",
   "BinaryExpression", "AssignmentExpression", "CallExpression",
   "UpdateExpression", "VariableDeclarator"}

\* the classification inside isNewStatement: statementTypes.has(node.type)
isStatementNode(type) == type \in statementTypes

\* a classification, after whatever call came before
CallClassify ==
  /\ \E k \in NodeKinds :
       call' = [op |-> "classify", kind |-> k, result |-> isStatementNode(k),
                prev |-> IF call.op = "classify"
                         THEN [kind |-> call.kind, result |-> call.result]
                         ELSE [kind |-> "", result |-> FALSE]]
  /\ LibOnly

\* C22: when run(code) returns, success is true exactly when the program
\* executed to completion, and value and interpreter are the evaluator's final
\* value and the interpreter.
C22_SuccessWhenCompleted ==
  (call.op = "run" /\ call.result.kind = "return") =>
    /\ call.result.success =
         (getStatus(Code(call.code), call.result.interpreter) = DONE)
    /\ call.result.value = getValue(call.result.interpreter)

(***************************************************************************)
(* require_wrapper.js: deepEqual(actual, expected, message).  A value is   *)
(* [t, n, props]: t its kind, n the number, the date's time or the regular *)
(* expression's source, props its own enumerable properties in key order   *)
(* (an array's indices are the keys "0", "1", ...).                        *)
(***************************************************************************)

\* members and keys of the arrays and objects compared
MaxItems == 2

JsNum(n) == [t |-> "number", n |-> n, props |-> <<>>]
JsNull == [t |-> "null", n |-> 0, props |-> <<>>]
JsDate(n) == [t |-> "date", n |-> n, props |-> <<>>]
JsRegExp(n) == [t |-> "regexp", n |-> n, props |-> <<>>]

KeyNames == <<"0", "1", "2", "3">>

SeqsUpTo(S, n) == UNION {[1..k -> S] : k \in 0..n}

JsArray(items) ==
  [t |-> "array", n |-> 0,
   props |-> [i \in DOMAIN items |-> [k |-> KeyNames[i], v |-> items[i]]]]

\* an object literal with the given keys, in the order written
JsObject(keys, items) ==
  [t |-> "object", n |-> 0,
   props |-> [i \in DOMAIN items |-> [k |-> keys[i], v |-> items[i]]]]

Arrays(S, n) == {JsArray(items) : items \in SeqsUpTo(S, n)}

Objects(S, n) ==
  {JsObject(ks, items) :
     <<ks, items>> \in
       {x \in SeqsUpTo({KeyNames[i] : i \in 1..MaxItems}, n) \X SeqsUpTo(S, n) :
          /\ Len(x[1]) = Len(x[2])
          /\ \A i, j \in DOMAIN x[1] : i # j => x[1][i] # x[1][j]}}

Members == {JsNum(1), JsDate(1), JsDate(2)}

JsValues ==
  {JsNum(1), JsNum(2), JsNull, JsDate(1), JsDate(2), JsRegExp(1), JsRegExp(2)}
    \cup Arrays(Members, MaxItems) \cup Objects(Members, MaxItems)
    \cup Arrays(Arrays(Members, 1) \cup Objects(Members, 1), 1)
    \cup Objects(Arrays(Members, 1) \cup Objects(Members, 1), 1)

typeof(x) == IF x.t = "number" THEN "number" ELSE "object"

ObjectKeys(x) == [i \in DOMAIN x.props |-> x.props[i].k]

Includes(s, x) == \E i \in DOMAIN s : s[i] = x

\* x[key], for a key x has
Get(x, key) == x.props[CHOOSE i \in DOMAIN x.props : x.props[i].k = key].v

\* actual === expected: by value for numbers and null, by reference otherwise
StrictEqual(actual, expected, sameRef) ==
  IF actual.t \in {"number", "null"} THEN actual = expected ELSE sameRef

RECURSIVE deepEqual(_, _, _)
RECURSIVE deepEqualItems(_, _, _)
RECURSIVE deepEqualKeys(_, _, _)

\* the array loop from index i on: the first member that is not deeply equal
\* ends it, by its throw or by return false
deepEqualItems(actual, expected, i) ==
  IF i > Len(actual.props) THEN "true"
  ELSE IF deepEqual(actual.props[i].v, expected.props[i].v, FALSE) = "true"
       THEN deepEqualItems(actual, expected, i + 1)
       ELSE IF deepEqual(actual.props[i].v, expected.props[i].v, FALSE) = "throw"
            THEN "throw" ELSE "false"

\* the loop over actual's keys from the i-th on
deepEqualKeys(actual, expected, i) ==
  IF i > Len(actual.props) THEN "true"
  ELSE IF ~Includes(ObjectKeys(expected), actual.props[i].k) THEN "throw"
  ELSE IF deepEqual(actual.props[i].v, Get(expected, actual.props[i].k), FALSE) = "true"
       THEN deepEqualKeys(actual, expected, i + 1)
       ELSE IF deepEqual(actual.props[i].v, Get(expected, actual.props[i].k), FALSE) = "throw"
            THEN "throw" ELSE "false"

\* deepEqual: "true" or "false" when it returns, "throw" when it throws.
\* sameRef: actual and expected are one object; members are separate objects.
deepEqual(actual, expected, sameRef) ==
  IF StrictEqual(actual, expected, sameRef) THEN "true"
  ELSE IF typeof(actual) # typeof(expected) \/ actual.t = "null" \/ expected.t = "null"
       THEN "throw"
  ELSE IF actual.t = "date" /\ expected.t = "date"
       THEN IF actual.n = expected.n THEN "true" ELSE "false"
  ELSE IF actual.t = "regexp" /\ expected.t = "regexp"
       THEN IF actual.n = expected.n THEN "true" ELSE "false"
  ELSE IF actual.t = "array" /\ expected.t = "array"
       THEN IF Len(actual.props) # Len(expected.props) THEN "throw"
            ELSE deepEqualItems(actual, expected, 1)
  ELSE IF typeof(actual) = "object" /\ typeof(expected) = "object"
       THEN IF Len(ObjectKeys(actual)) # Len(ObjectKeys(expected)) THEN "throw"
            ELSE deepEqualKeys(actual, expected, 1)
  ELSE "throw"

CallDeepEqual ==
  /\ call.op = "none"
  /\ \E a \in JsValues, b \in JsValues, same \in BOOLEAN :
       /\ same => a = b
       /\ call' = [op |-> "deepEqual", actual |-> a, expected |-> b,
                   sameRef |-> same, result |-> deepEqual(a, b, same)]
  /\ LibOnly

NextLib ==
  \/ CallRun
  \/ CallExecute
  \/ CallClassify
  \/ CallDeepEqual

SpecLib == InitLib /\ [][NextLib]_vars

\* C23: a node kind is classified as a statement exactly when it is one of the
\* twelve listed kinds, and a kind classified twice in a row gets the same
\* answer both times.
C23_ClassificationByKind ==
  call.op = "classify" =>
    /\ call.result =
         (call.kind \in
            {"VariableDeclaration", "ExpressionStatement", "ReturnStatement",
             "IfStatement", "WhileStatement", "ForStatement",
             "FunctionDeclaration", "BlockStatement", "TryStatement",
             "ThrowStatement", "BreakStatement", "ContinueStatement"})
    /\ call.prev.kind = call.kind => call.prev.result = call.result

\* a listed kind classified true right after an unlisted kind classified false
C23_Witness ==
  /\ call.op = "classify"
  /\ call.kind = "ThrowStatement"
  /\ call.result
  /\ call.prev.kind = "EmptyStatement"
  /\ ~call.prev.result

\* C24: a program file is reported correct only if the program run together
\* with its test code raises no error.
C24_CorrectOnlyByTest ==
  (call.op = "execute" /\ call.result) =>
    runCode(Code(call.combined)).kind = "return"

\* the values are deeply equal: same kind, same number, time or source, same
\* key set, and deeply equal members
RECURSIVE DeepEq(_, _)
DeepEq(a, b) ==
  /\ a.t = b.t
  /\ a.n = b.n
  /\ Len(a.props) = Len(b.props)
  /\ \A i \in DOMAIN a.props :
       /\ Includes(ObjectKeys(b), a.props[i].k)
       /\ DeepEq(a.props[i].v, Get(b, a.props[i].k))

\* C30: deepEqual returns true only for deeply equal values, and throws for
\* values that are not deeply equal.
C30_TrueOnlyWhenDeepEqual ==
  call.op = "deepEqual" =>
    /\ call.result = "true" => DeepEq(call.actual, call.expected)
    /\ ~DeepEq(call.actual, call.expected) => call.result = "throw"

\* C25: in the loop of stepStatement, a step() that returns true ends the
\* tracked statement exactly when the node then on top is of a statement kind
\* and its start offset differs from the tracked node's start offset or lies
\* beyond the tracked node's end.
C25_BoundaryByPosition ==
  (pc = "loop" /\ LoopPass(P, ev, startNode).out \in {"boundary", "continue"}) =>
    ((LoopPass(P, ev, startNode).out = "boundary") <=>
       /\ P[getCurrentStatement(LoopPass(P, ev, startNode).ev)].type \in
            {"VariableDeclaration", "ExpressionStatement", "ReturnStatement",
             "IfStatement", "WhileStatement", "ForStatement",
             "FunctionDeclaration", "BlockStatement", "TryStatement",
             "ThrowStatement", "BreakStatement", "ContinueStatement"}
       /\ \/ P[getCurrentStatement(LoopPass(P, ev, startNode).ev)].start #
               P[startNode].start
          \/ P[getCurrentStatement(LoopPass(P, ev, startNode).ev)].start >
               P[startNode].end)

(***************************************************************************)
(* stepStatement() on an interpreter whose global scope has an async host  *)
(* function.  The host runs on one thread: the callback of a pending async *)
(* call can run only after stepStatement() has returned to the host.       *)
(***************************************************************************)

\* require, and an async function the host has put on the global scope
HostBindings == [require |-> Native, fetch |-> Async]

InitAsync ==
  /\ prog \in ScriptPrograms
  /\ ev = Interpreter(P, HostBindings)
  /\ pc = "idle"
  /\ startNode = 0
  /\ returned = <<>>
  /\ nsteps = 0
  /\ stepCalls = 0
  /\ doneCalls = 0
  /\ hist = <<>>
  /\ topAtCall = 0
  /\ doneValue = <<>>
  /\ thrown = <<>>
  /\ drv = DriverUnused
  /\ lim = LimiterUnused
  /\ call = CallUnused

NextAsync ==
  \/ StepStatementNull
  \/ StepStatementBegin
  \/ StepStatementContinue
  \/ StepStatementBoundary
  \/ StepStatementLast

SpecAsync == InitAsync /\ [][NextAsync]_vars

\* C26: when the evaluator is blocked on an async call inside stepStatement's
\* loop, a pass of the loop does not leave the call where it was: the same
\* evaluator, still in the loop, about to call step() again.
C26_NoSpinWhenBlocked ==
  (pc = "loop" /\ getStatus(P, ev) = ASYNC) =>
    ~(/\ LoopPass(P, ev, startNode).out = "continue"
      /\ LoopPass(P, ev, startNode).ev = ev)

\* C27: callCount is never below 0 and never above rateLimit.
C27_CountWithinLimit ==
  /\ lim.callCount >= 0
  /\ lim.callCount <= RateLimit

(***************************************************************************)
(* A caller that starts callAIApiToGenerateCode for every row without      *)
(* awaiting the calls before (the calls then overlap on one                *)
(* RateLimitedCaller).                                                     *)
(***************************************************************************)

InitConcurrent ==
  /\ lim = [LimiterInit EXCEPT !.awaits = FALSE]
  /\ prog = "Empty"
  /\ ev = NewInterpreter(AllPrograms["Empty"])
  /\ drv = DriverUnused
  /\ call = CallUnused
  /\ pc = "idle"
  /\ startNode = 0
  /\ returned = <<>>
  /\ nsteps = 0
  /\ stepCalls = 0
  /\ doneCalls = 0
  /\ hist = <<>>
  /\ topAtCall = 0
  /\ doneValue = <<>>
  /\ thrown = <<>>

\* the overlapping calls, each followed until its API call resolves
NextConcurrent ==
  \/ CallReset
  \/ CallAdmit
  \/ CallSuspend
  \/ DelayDone
  \/ ApiResolve
  \/ ClockTick

SpecConcurrent == InitConcurrent /\ [][NextConcurrent]_vars

\* C28: of the callers that were suspended for the window, at most rateLimit
\* are admitted at one time.
C28_WaitersNotAdmittedTogether ==
  \A t \in 0..MaxTime :
    Cardinality({i \in DOMAIN lim.calls :
                   lim.calls[i].path = "wait" /\ lim.calls[i].admit = t}) <= RateLimit

============================================================================
